---------------------------- MODULE Spec2Model ----------------------------
(***************************************************************************)
(* Model of src/acf.rs: autocorrelation (acf), Yule-Walker AR coefficients *)
(* (ar_coef, ar_coef_rho), innovation variance (var, var_phi_rho_cov) and  *)
(* partial autocorrelation (pacf, pacf_rho).                               *)
(*                                                                         *)
(* Numbers.  The element type T is an IEEE float.  A value is modelled as  *)
(* an exact fraction [n, d] in lowest terms with d > 0, extended with the  *)
(* IEEE special values the code can produce by dividing by zero:           *)
(* NaN = [0, 0], +Inf = [1, 0], -Inf = [-1, 0].  Rounding is not modelled. *)
(* Vectors and slices are functions on 0 .. len-1, indexed as in the code. *)
(***************************************************************************)
EXTENDS Integers, Sequences, FiniteSets, TLC

VARIABLES pc, fn, arg, ret, rho, i, y, solves, sys, reads

vars == <<pc, fn, arg, ret, rho, i, y, solves, sys, reads>>

-----------------------------------------------------------------------------
(* Bounds of the explored inputs.                                          *)

MaxLen == 3
MaxVal == 2
MaxOrder == 4
MaxPhi == 2

-----------------------------------------------------------------------------
(* Floating point values.                                                  *)

RECURSIVE GCD(_, _)
GCD(a, b) == IF b = 0 THEN a ELSE GCD(b, a % b)

Abs(k) == IF k < 0 THEN -k ELSE k
Sgn(k) == IF k < 0 THEN -1 ELSE IF k > 0 THEN 1 ELSE 0
Min(a, b) == IF a <= b THEN a ELSE b
Max2(a, b) == IF a >= b THEN a ELSE b

(* Body(v) with v evaluated once: the value of a local variable.           *)
Bind(v, Body(_)) == CHOOSE r \in {Body(e) : e \in {v}} : TRUE

NormV(p) ==
    IF p[2] = 0 THEN [n |-> Sgn(p[1]), d |-> 0]
    ELSE LET g == GCD(Abs(p[1]), Abs(p[2]))
         IN  [n |-> Sgn(p[2]) * (p[1] \div g), d |-> Abs(p[2]) \div g]
Norm(n, d) == Bind(<<n, d>>, NormV)

R(n, d) == Norm(n, d)
NaN == [n |-> 0, d |-> 0]
Zero == [n |-> 0, d |-> 1]
One == [n |-> 1, d |-> 1]
FromInt(k) == [n |-> k, d |-> 1]

IsNaN(a) == a.d = 0 /\ a.n = 0

(* Finite operands are combined over the least common denominator, so the  *)
(* intermediate integers stay as small as the exact result allows.         *)
AddV(a, b) ==
    IF a.d = 0 /\ b.d = 0 THEN (IF a.n = b.n THEN a ELSE NaN)
    ELSE IF a.d = 0 THEN a
    ELSE IF b.d = 0 THEN b
    ELSE LET g == GCD(a.d, b.d)
         IN  Norm(a.n * (b.d \div g) + b.n * (a.d \div g), (a.d \div g) * b.d)
MulV(a, b) ==
    IF a.d = 0 \/ b.d = 0 THEN Norm(a.n * b.n, a.d * b.d)
    ELSE LET g1 == GCD(Abs(a.n), b.d)
             g2 == GCD(Abs(b.n), a.d)
         IN  Norm((a.n \div g1) * (b.n \div g2), (a.d \div g2) * (b.d \div g1))
NegV(a) == [n |-> -a.n, d |-> a.d]
RecipV(a) == Norm(a.d, a.n)

FAdd(x, z) == CHOOSE r \in {AddV(a, b) : a \in {x}, b \in {z}} : TRUE
FSub(x, z) == CHOOSE r \in {AddV(a, NegV(b)) : a \in {x}, b \in {z}} : TRUE
FMul(x, z) == CHOOSE r \in {MulV(a, b) : a \in {x}, b \in {z}} : TRUE
FDiv(x, z) == CHOOSE r \in {MulV(a, RecipV(b)) : a \in {x}, b \in {z}} : TRUE

(* a > 0.0 and |a| <= 1.0 as IEEE comparisons: false on NaN.               *)
FGt0(a) == a.n > 0
FAbsLe1(a) == ~IsNaN(a) /\ Abs(a.n) <= a.d

RECURSIVE FSum(_, _, _)
FSum(Term(_), lo, hi) ==
    IF hi < lo THEN Zero ELSE FAdd(FSum(Term, lo, hi - 1), Term(hi))

-----------------------------------------------------------------------------
(* Vectors, options and results.                                           *)

Len0(v) == Cardinality(DOMAIN v)
Vec(s) == [k \in 0 .. Len(s) - 1 |-> s[k + 1]]
(* The vector v with every element evaluated.                              *)
Force(v) == v @@ <<>>
Fill(v, len) == Force([k \in 0 .. len - 1 |-> v])
Push(v, e) == Force([k \in 0 .. Len0(v) |-> IF k < Len0(v) THEN v[k] ELSE e])
At(v, k) == IF k \in DOMAIN v THEN v[k] ELSE NaN

(* A u32 is kept at its width as two 16-bit halves.                        *)
Half == 65536
U32(k) == [hi |-> k \div Half, lo |-> k % Half]
U32_MAX == [hi |-> Half - 1, lo |-> Half - 1]

None == [some |-> FALSE, v |-> U32(0)]
Some(u) == [some |-> TRUE, v |-> u]

(* cmp::min(v as usize, k) for a usize k below 2^16.                       *)
MinUsize(v, k) == IF v.hi > 0 THEN k ELSE Min(v.lo, k)

(* v + 1 on u32: overflow panics when overflow checks are on, and wraps    *)
(* when they are off.                                                      *)
AddOne(v, checks) ==
    IF v = U32_MAX
    THEN [ovf |-> checks, v |-> U32(0)]
    ELSE [ovf |-> FALSE,
          v |-> IF v.lo = Half - 1 THEN [hi |-> v.hi + 1, lo |-> 0]
                ELSE [hi |-> v.hi, lo |-> v.lo + 1]]

Ok(v) == [kind |-> "Ok", val |-> v]
Err == [kind |-> "Err", val |-> <<>>]
Panic == [kind |-> "Panic", val |-> <<>>]
NoRet == [kind |-> "None", val |-> <<>>]

-----------------------------------------------------------------------------
(* acf                                                                     *)

clamp_lag(max_lag, len) ==
    IF max_lag.some THEN MinUsize(max_lag.v, len - 1) ELSE len - 1

RECURSIVE fold_sum(_, _)
fold_sum(x, k) ==
    IF k = 0 THEN Zero ELSE FAdd(fold_sum(x, k - 1), x[k - 1])

mean(x) == FDiv(fold_sum(x, Len0(x)), FromInt(Len0(x)))

(* Number of iterations of the inner loop at lag t.                        *)
acf_inner_len_full(len_x_usize, t) == len_x_usize
acf_inner_len(len_x_usize, t) == len_x_usize - t

acf_reads(len_x_usize, m) ==
    UNION {{p[2], p[2] + p[1]} : p \in
              {q \in (0 .. m - 1) \X (0 .. len_x_usize) :
                  q[2] < acf_inner_len(len_x_usize, q[1])}}

(* The inner loop: y[t] after its first k iterations.                      *)
RECURSIVE acf_inner(_, _, _, _)
acf_inner(x, mean_x, t, k) ==
    IF k = 0 THEN Zero
    ELSE FAdd(acf_inner(x, mean_x, t, k - 1),
              FDiv(FMul(FSub(At(x, k - 1), mean_x),
                        FSub(At(x, k - 1 + t), mean_x)),
                   FromInt(Len0(x))))

(* The end of the lag-t pass: y[t] is divided by the current y[0].         *)
acf_normalise_overwritten(yv, t, covariance) ==
    IF ~covariance /\ t > 0
    THEN [yv EXCEPT ![t] = FDiv(yv[t], One)]
    ELSE yv
acf_normalise(yv, t, covariance) ==
    IF ~covariance /\ t > 0
    THEN [yv EXCEPT ![t] = FDiv(yv[t], yv[0])]
    ELSE yv

acf_finish(yv, covariance) ==
    IF ~covariance THEN [yv EXCEPT ![0] = One] ELSE yv

(* The outer loop from lag t on, yv being the vector y so far.             *)
RECURSIVE acf_outer(_, _, _, _, _, _)
acf_outer(x, mean_x, m, covariance, t, yv) ==
    IF t = m THEN yv
    ELSE LET Pass(raw) == acf_normalise([yv EXCEPT ![t] = raw], t, covariance)
             Rest(ny) == acf_outer(x, mean_x, m, covariance, t + 1, ny)
         IN  Bind(Bind(acf_inner(x, mean_x, t, acf_inner_len(Len0(x), t)), Pass),
                  Rest)

acf(x, max_lag, covariance) ==
    LET m == clamp_lag(max_lag, Len0(x)) + 1
        Run(mean_x) == acf_outer(x, mean_x, m, covariance, 0, Fill(Zero, m))
        Out(rd) ==
            IF rd \subseteq DOMAIN x
            THEN [res |-> Ok(acf_finish(Bind(mean(x), Run), covariance)),
                  reads |-> rd]
            ELSE [res |-> Panic, reads |-> rd]
    IN  Bind(acf_reads(Len0(x), m), Out)

-----------------------------------------------------------------------------
(* The LAPACK driver dposv (Cholesky solve of a symmetric positive         *)
(* definite system), as called with nrhs = 1 on column-major storage:      *)
(* element (r, c) of the matrix is a[r + c*lda], and with uplo = "L" only  *)
(* the entries with r >= c are referenced.  The factorisation is carried   *)
(* out without square roots (A = L D L^T): its pivots D[j] are the squares *)
(* of the Cholesky diagonal, so the routine stops with info = j+1 exactly  *)
(* when pivot j is not positive (or is NaN), and the solution is the same. *)
(* Illegal arguments are reported through a negative info.                 *)

dposv_at(uplo, a, lda, r, c) ==
    IF uplo = "L" THEN a[Max2(r, c) + Min(r, c) * lda]
    ELSE a[Min(r, c) + Max2(r, c) * lda]

(* Column j of the factor, given the matrix f that holds the columns       *)
(* before j already factored (pivots on the diagonal, the multipliers of   *)
(* L below it) and the pivot ajj of column j.                              *)
dpotrf_column(uplo, n, a, lda, f, j, ajj) ==
    Force([q \in DOMAIN f |->
        IF q = j + j * lda THEN ajj
        ELSE IF q \div lda = j /\ q % lda > j /\ q % lda < n
        THEN LET T(k) == FMul(FMul(f[(q % lda) + k * lda], f[j + k * lda]),
                              f[k + k * lda])
             IN  FDiv(FSub(dposv_at(uplo, a, lda, q % lda, j), FSum(T, 0, j - 1)),
                      ajj)
        ELSE f[q]])

dpotrf_pivot(uplo, a, lda, f, j) ==
    LET T(k) == FMul(FMul(f[j + k * lda], f[j + k * lda]), f[k + k * lda])
    IN  FSub(dposv_at(uplo, a, lda, j, j), FSum(T, 0, j - 1))

RECURSIVE dpotrf(_, _, _, _, _, _)
dpotrf(uplo, n, a, lda, f, j) ==
    IF j = n THEN [info |-> 0, f |-> f]
    ELSE LET Rest(nf) == dpotrf(uplo, n, a, lda, nf, j + 1)
             Col(ajj) ==
                 IF ~FGt0(ajj) THEN [info |-> j + 1, f |-> f]
                 ELSE Bind(dpotrf_column(uplo, n, a, lda, f, j, ajj), Rest)
         IN  Bind(dpotrf_pivot(uplo, a, lda, f, j), Col)

(* Forward substitution L z = b, rows r onwards.                           *)
RECURSIVE dpotrs_fwd(_, _, _, _, _)
dpotrs_fwd(n, f, lda, z, r) ==
    IF r = n THEN z
    ELSE LET T(k) == FMul(f[r + k * lda], z[k])
             Rest(nz) == dpotrs_fwd(n, f, lda, nz, r + 1)
         IN  Bind([z EXCEPT ![r] = FSub(z[r], FSum(T, 0, r - 1))], Rest)

(* Scaling by the pivots and back substitution L^T x = w, rows r downto 0. *)
RECURSIVE dpotrs_bwd(_, _, _, _, _)
dpotrs_bwd(n, f, lda, w, r) ==
    IF r < 0 THEN w
    ELSE LET T(k) == FMul(f[k + r * lda], w[k])
             Rest(nw) == dpotrs_bwd(n, f, lda, nw, r - 1)
         IN  Bind([w EXCEPT ![r] = FSub(FDiv(w[r], f[r + r * lda]),
                                        FSum(T, r + 1, n - 1))], Rest)

dposv(uplo, n, nrhs, a, lda, b, ldb) ==
    IF uplo \notin {"U", "L"} THEN [info |-> -1, b |-> b]
    ELSE IF n < 0 THEN [info |-> -2, b |-> b]
    ELSE IF nrhs < 0 THEN [info |-> -3, b |-> b]
    ELSE IF lda < Max2(1, n) THEN [info |-> -5, b |-> b]
    ELSE IF ldb < Max2(1, n) THEN [info |-> -7, b |-> b]
    ELSE LET Solve(fa) ==
                 IF fa.info # 0 THEN [info |-> fa.info, b |-> b]
                 ELSE LET Bwd(z) == dpotrs_bwd(n, fa.f, lda, z, n - 1)
                      IN  [info |-> 0,
                           b |-> Bind(dpotrs_fwd(n, fa.f, lda, b, 0), Bwd)]
         IN  Bind(dpotrf(uplo, n, a, lda, a, 0), Solve)

-----------------------------------------------------------------------------
(* ar_coef_rho, ar_coef                                                    *)

(* The loops that fill mr: every cell starts at 1.0, and cell i*n+j with   *)
(* j > i receives rho[j-i].                                                *)
build_mr_rho0(rho_, n) ==
    Force([k \in 0 .. n * n - 1 |-> At(rho_, Abs((k % n) - (k \div n)))])
build_mr(rho_, n) ==
    Force([k \in 0 .. n * n - 1 |->
              IF k % n > k \div n THEN At(rho_, (k % n) - (k \div n)) ELSE One])

build_b_from0(rho_, n) == Force([k \in 0 .. n - 1 |-> At(rho_, k)])
build_b(rho_, n) == Force([k \in 0 .. n - 1 |-> At(rho_, k + 1)])

ar_coef_rho_reads(n) ==
    {p[2] - p[1] : p \in {q \in (0 .. n - 1) \X (0 .. n - 1) : q[2] > q[1]}}
        \cup {k + 1 : k \in 0 .. n - 1}

solve_status_positive(info) == IF info > 0 THEN "Err" ELSE "Ok"
solve_status(info) == IF info # 0 THEN "Err" ELSE "Ok"

ar_coef_rho_n(rho_, order) == clamp_lag(order, Len0(rho_))

ar_coef_rho(rho_, order) ==
    LET Out(c) ==
            IF ~(c.reads \subseteq DOMAIN rho_)
            THEN [n |-> c.n, mr |-> c.mr, b |-> c.b, info |-> 0,
                  reads |-> c.reads, res |-> Panic, called |-> FALSE]
            ELSE LET Ret(s) ==
                         [n |-> c.n, mr |-> c.mr, b |-> c.b, info |-> s.info,
                          reads |-> c.reads, called |-> TRUE,
                          res |-> IF solve_status(s.info) = "Err" THEN Err
                                  ELSE Ok(s.b)]
                 IN  Bind(dposv("L", c.n, 1, c.mr, c.n, c.b, c.n), Ret)
        Build(n) == [n |-> n, mr |-> build_mr(rho_, n), b |-> build_b(rho_, n),
                     reads |-> ar_coef_rho_reads(n)]
    IN  Bind(Bind(ar_coef_rho_n(rho_, order), Build), Out)

(* Some(order + 1) of ar_coef and var.                                     *)
lag_of_order(order, checks) ==
    IF order.some
    THEN LET s == AddOne(order.v, checks)
         IN  [ovf |-> s.ovf, opt |-> Some(s.v)]
    ELSE [ovf |-> FALSE, opt |-> None]

ar_coef(x, order, checks) ==
    LET Go(l) ==
            IF l.ovf THEN [res |-> Panic, called |-> FALSE]
            ELSE LET Solve(a) ==
                         IF a.res.kind # "Ok" THEN [res |-> Panic, called |-> FALSE]
                         ELSE ar_coef_rho(a.res.val, order)
                 IN  Bind(acf(x, l.opt, FALSE), Solve)
    IN  Bind(lag_of_order(order, checks), Go)

-----------------------------------------------------------------------------
(* var_phi_rho_cov, var                                                    *)

var_precondition_weak(phi, rho_) == Len0(rho_) >= Len0(phi)
var_precondition(phi, rho_) == Len0(rho_) > Len0(phi)

var_phi_rho_cov_reads(phi) == {k + 1 : k \in 0 .. Len0(phi) - 1}

var_phi_rho_cov(phi, rho_, cov0) ==
    LET T(k) == FMul(phi[k], At(rho_, k + 1))
        rd == var_phi_rho_cov_reads(phi)
    IN  IF ~var_precondition(phi, rho_)
        THEN [res |-> Panic, reads |-> {}]
        ELSE IF ~(rd \subseteq DOMAIN rho_)
        THEN [res |-> Panic, reads |-> rd]
        ELSE [res |-> Ok(FMul(cov0, FSub(One, FSum(T, 0, Len0(phi) - 1)))),
              reads |-> rd]

(* What var does with the outcome of its ar_coef_rho call.                 *)
var_unwrap_phi(r) == IF r.kind = "Ok" THEN r ELSE Panic

var(x, order, checks) ==
    LET Go(l) ==
            IF l.ovf THEN [res |-> Panic, solved |-> <<>>]
            ELSE LET WithRho(a) ==
                         LET WithPhi(c) ==
                                 LET Est(phi) ==
                                         IF phi.kind # "Ok" THEN phi
                                         ELSE var_phi_rho_cov(
                                                  phi.val, a.res.val,
                                                  acf(x, Some(U32(0)), TRUE).res.val[0]).res
                                 IN  [res |-> Bind(var_unwrap_phi(c.res), Est),
                                      solved |-> <<[n |-> c.n, info |-> c.info]>>]
                         IN  Bind(ar_coef_rho(a.res.val, order), WithPhi)
                 IN  Bind(acf(x, l.opt, FALSE), WithRho)
    IN  Bind(lag_of_order(order, checks), Go)

-----------------------------------------------------------------------------
(* pacf_rho: the loop bound m and one pass of the loop body.               *)

pacf_m(rho_, max_lag) == clamp_lag(max_lag, Len0(rho_)) + 1

pacf_coef(rho_, k) == ar_coef_rho(rho_, Some(U32(k)))

(* The item of the order-k solution that is pushed to y.                   *)
pacf_pick_first(coef, k) == coef[0]
pacf_pick(coef, k) == coef[k - 1]

-----------------------------------------------------------------------------
(* Inputs.                                                                 *)

Vals == {FromInt(k) : k \in 0 .. MaxVal}
SeriesSet == UNION {[0 .. len - 1 -> Vals] : len \in 1 .. MaxLen}
RhoVals == {R(-1, 2), R(0, 1), R(1, 2), R(1, 1)}
RhoSet == UNION {[0 .. len - 1 -> RhoVals] : len \in 1 .. MaxLen + 1}
VarRhoSet == UNION {[0 .. len - 1 -> RhoVals] : len \in 1 .. MaxPhi + 1}
PhiVals == {R(1, 2), R(-1, 1)}
PhiSet == UNION {[0 .. len - 1 -> PhiVals] : len \in 0 .. MaxPhi}
Opts == {None, Some(U32_MAX)} \cup {Some(U32(k)) : k \in 0 .. MaxOrder}

NoArg == [x |-> <<>>, rho |-> <<>>, phi |-> <<>>, cov0 |-> Zero,
          opt |-> None, covariance |-> FALSE]
NoSys == [n |-> 0, mr |-> <<>>, b |-> <<>>]

Init ==
    /\ pc = "idle"
    /\ fn = "none"
    /\ arg = NoArg
    /\ ret = NoRet
    /\ rho = <<>>
    /\ i = 0
    /\ y = <<>>
    /\ solves = <<>>
    /\ sys = NoSys
    /\ reads = {}

CallAcf ==
    /\ pc = "idle"
    /\ \E x \in SeriesSet, max_lag \in Opts, covariance \in BOOLEAN :
          \E r \in {acf(x, max_lag, covariance)} :
              /\ arg' = [NoArg EXCEPT !.x = x, !.opt = max_lag,
                                      !.covariance = covariance]
              /\ ret' = r.res
              /\ reads' = r.reads
    /\ fn' = "acf"
    /\ pc' = "done"
    /\ UNCHANGED <<rho, i, y, solves, sys>>

SolveLog(c) == IF c.called THEN <<[n |-> c.n, info |-> c.info]>> ELSE <<>>
SysOf(c) == IF c.called THEN [n |-> c.n, mr |-> c.mr, b |-> c.b] ELSE NoSys

CallArCoefRho ==
    /\ pc = "idle"
    /\ \E r \in RhoSet, order \in Opts :
          \E c \in {ar_coef_rho(r, order)} :
              /\ arg' = [NoArg EXCEPT !.rho = r, !.opt = order]
              /\ ret' = c.res
              /\ reads' = c.reads
              /\ solves' = SolveLog(c)
              /\ sys' = SysOf(c)
    /\ fn' = "ar_coef_rho"
    /\ pc' = "done"
    /\ UNCHANGED <<rho, i, y>>

CallArCoef ==
    /\ pc = "idle"
    /\ \E x \in SeriesSet, order \in Opts, checks \in BOOLEAN :
          \E c \in {ar_coef(x, order, checks)} :
              /\ arg' = [NoArg EXCEPT !.x = x, !.opt = order]
              /\ ret' = c.res
              /\ solves' = SolveLog(c)
              /\ sys' = SysOf(c)
    /\ fn' = "ar_coef"
    /\ pc' = "done"
    /\ UNCHANGED <<rho, i, y, reads>>

CallVar ==
    /\ pc = "idle"
    /\ \E x \in SeriesSet, order \in Opts, checks \in BOOLEAN :
          \E c \in {var(x, order, checks)} :
              /\ arg' = [NoArg EXCEPT !.x = x, !.opt = order]
              /\ ret' = c.res
              /\ solves' = c.solved
    /\ fn' = "var"
    /\ pc' = "done"
    /\ UNCHANGED <<rho, i, y, sys, reads>>

CallVarPhiRhoCov ==
    /\ pc = "idle"
    /\ \E phi \in PhiSet, r \in VarRhoSet, cov0 \in Vals :
          \E c \in {var_phi_rho_cov(phi, r, cov0)} :
              /\ arg' = [NoArg EXCEPT !.phi = phi, !.rho = r, !.cov0 = cov0]
              /\ ret' = c.res
              /\ reads' = c.reads
    /\ fn' = "var_phi_rho_cov"
    /\ pc' = "done"
    /\ UNCHANGED <<rho, i, y, solves, sys>>

CallPacfRho ==
    /\ pc = "idle"
    /\ \E r \in RhoSet, max_lag \in Opts :
          /\ arg' = [NoArg EXCEPT !.rho = r, !.opt = max_lag]
          /\ rho' = r
    /\ fn' = "pacf_rho"
    /\ pc' = "pacf_loop"
    /\ i' = 1
    /\ y' = <<>>
    /\ UNCHANGED <<ret, solves, sys, reads>>

CallPacf ==
    /\ pc = "idle"
    /\ \E x \in SeriesSet, max_lag \in Opts :
          /\ arg' = [NoArg EXCEPT !.x = x, !.opt = max_lag]
          /\ rho' = acf(x, max_lag, FALSE).res.val
    /\ fn' = "pacf"
    /\ pc' = "pacf_loop"
    /\ i' = 1
    /\ y' = <<>>
    /\ UNCHANGED <<ret, solves, sys, reads>>

PacfSolveOk ==
    /\ pc = "pacf_loop"
    /\ i < pacf_m(rho, arg.opt)
    /\ \E c \in {pacf_coef(rho, i)} :
           /\ c.res.kind = "Ok"
           /\ y' = Push(y, pacf_pick(c.res.val, i))
           /\ solves' = solves \o SolveLog(c)
           /\ sys' = SysOf(c)
    /\ i' = i + 1
    /\ UNCHANGED <<pc, fn, arg, ret, rho, reads>>

PacfSolveErr_continue ==
    /\ pc = "pacf_loop"
    /\ i < pacf_m(rho, arg.opt)
    /\ \E c \in {pacf_coef(rho, i)} :
           /\ c.res.kind = "Err"
           /\ y' = Push(y, NaN)
           /\ solves' = solves \o SolveLog(c)
           /\ sys' = SysOf(c)
    /\ i' = i + 1
    /\ UNCHANGED <<pc, fn, arg, ret, rho, reads>>

PacfSolveErr ==
    /\ pc = "pacf_loop"
    /\ i < pacf_m(rho, arg.opt)
    /\ \E c \in {pacf_coef(rho, i)} :
           /\ c.res.kind = "Err"
           /\ solves' = solves \o SolveLog(c)
           /\ sys' = SysOf(c)
    /\ ret' = Err
    /\ pc' = "done"
    /\ UNCHANGED <<fn, arg, rho, i, y, reads>>

PacfReturn ==
    /\ pc = "pacf_loop"
    /\ ~(i < pacf_m(rho, arg.opt))
    /\ ret' = Ok(y)
    /\ pc' = "done"
    /\ UNCHANGED <<fn, arg, rho, i, y, solves, sys, reads>>

Return ==
    /\ pc = "done"
    /\ pc' = "idle"
    /\ fn' = "none"
    /\ arg' = NoArg
    /\ ret' = NoRet
    /\ rho' = <<>>
    /\ i' = 0
    /\ y' = <<>>
    /\ solves' = <<>>
    /\ sys' = NoSys
    /\ reads' = {}

Next ==
    \/ CallAcf
    \/ CallArCoefRho
    \/ CallArCoef
    \/ CallVar
    \/ CallVarPhiRhoCov
    \/ CallPacfRho
    \/ CallPacf
    \/ PacfSolveOk
    \/ PacfSolveErr
    \/ PacfReturn
    \/ Return

Spec == Init /\ [][Next]_vars

-----------------------------------------------------------------------------
(* Properties.                                                             *)

Returned(f) == pc = "done" /\ fn = f
ArgLen(v) == Len0(v)
(* min(k, len-1) for an option Some(k), len-1 for None.                    *)
Clamped(opt, len) ==
    IF ~opt.some \/ opt.v.hi > 0 \/ opt.v.lo > len - 1 THEN len - 1 ELSE opt.v.lo
(* The autocovariances of the call's series, lags 0 .. as requested.       *)
Cov == acf(arg.x, arg.opt, TRUE).res.val

(* C1: acf returns Ok with min(k, n-1)+1 entries (n for None), never an    *)
(* error, and reads x only inside 0 .. n-1.                                *)
C1_AcfLengthAndBounds ==
    Returned("acf") =>
        /\ ret.kind = "Ok"
        /\ DOMAIN ret.val = 0 .. Clamped(arg.opt, ArgLen(arg.x))
        /\ reads \subseteq 0 .. ArgLen(arg.x) - 1

C1_Witness ==
    /\ Returned("acf")
    /\ arg.opt = Some(U32_MAX)
    /\ ArgLen(arg.x) = 3
    /\ ret.kind = "Ok"
    /\ Len0(ret.val) = 3
    /\ reads = {0, 1, 2}

(* C2 as stated: in correlation mode entry 0 is 1.0 and every entry t > 0  *)
(* is cov[t] / cov[0] with absolute value at most 1.0, for every series,   *)
(* constant ones included.                                                 *)
C2_Original ==
    (Returned("acf") /\ ~arg.covariance) =>
        /\ ret.val[0] = One
        /\ \A cov \in {Cov} : \A t \in DOMAIN ret.val \ {0} :
              /\ ret.val[t] = FDiv(cov[t], cov[0])
              /\ FAbsLe1(ret.val[t])

(* C2 amended: entry 0 is 1.0 and every entry t > 0 is cov[t] / cov[0],    *)
(* cov[0] being the raw lag-0 autocovariance; it has absolute value at     *)
(* most 1.0 when cov[0] is not zero, and is NaN (0/0) when cov[0] is zero. *)
C2_Amended ==
    (Returned("acf") /\ ~arg.covariance) =>
        /\ ret.val[0] = One
        /\ \A cov \in {Cov} : \A t \in DOMAIN ret.val \ {0} :
              /\ ret.val[t] = FDiv(cov[t], cov[0])
              /\ cov[0] # Zero => FAbsLe1(ret.val[t])
              /\ cov[0] = Zero => IsNaN(ret.val[t])

C2_Witness ==
    /\ Returned("acf")
    /\ ~arg.covariance
    /\ Len0(ret.val) = 3
    /\ Cov[0] \notin {Zero, One}
    /\ ret.val[0] = One
    /\ ret.val[1] \notin {Zero, NaN}
    /\ ret.val[2] \notin {Zero, NaN}

(* C3 as stated: ar_coef(x, order) has the outcome of                      *)
(* ar_coef_rho(acf(x, None, false), order), for every order option.        *)
C3_Equivalence ==
    Returned("ar_coef") =>
        ret = ar_coef_rho(acf(arg.x, None, FALSE).res.val, arg.opt).res

(* The same equivalence for the orders below u32::MAX, where order + 1     *)
(* does not overflow.                                                      *)
C3_EquivalenceBelowMax ==
    (Returned("ar_coef") /\ arg.opt # Some(U32_MAX)) =>
        ret = ar_coef_rho(acf(arg.x, None, FALSE).res.val, arg.opt).res

(* C4 as stated: when the solve inside var fails, var returns Err.         *)
C4_VarSurfacesSolveFailure ==
    (Returned("var") /\ solves # <<>> /\ solves[1].info # 0) => ret.kind = "Err"

(* The matrix the solver works on, as it reads it under uplo = "L".        *)
SysM(r, c) == sys.mr[Max2(r, c) + Min(r, c) * sys.n]
RowTimes(phi, r) ==
    LET T(c) == FMul(SysM(r, c), phi[c]) IN FSum(T, 0, sys.n - 1)

(* C5: ar_coef_rho calls the solver once; it returns Err, without a        *)
(* vector, exactly when the status is not zero, and otherwise Ok with the  *)
(* min(order, len(rho)-1) entries of the solution of the system.           *)
C5_ArCoefRhoStatus ==
    Returned("ar_coef_rho") =>
        /\ Len(solves) = 1
        /\ ret.kind \in {"Ok", "Err"}
        /\ ret.kind = "Err" <=> solves[1].info # 0
        /\ ret.kind = "Err" => ret.val = <<>>
        /\ ret.kind = "Ok" =>
              /\ DOMAIN ret.val = 0 .. Clamped(arg.opt, ArgLen(arg.rho)) - 1
              /\ \A r \in DOMAIN ret.val : RowTimes(ret.val, r) = sys.b[r]

C5_WitnessOk ==
    /\ Returned("ar_coef_rho")
    /\ ret.kind = "Ok"
    /\ Len0(ret.val) = 3
    /\ \A k \in DOMAIN ret.val : ret.val[k] # Zero

C5_WitnessErr ==
    /\ Returned("ar_coef_rho")
    /\ ret.kind = "Err"
    /\ solves[1].info = 3

C5_Witness == C5_WitnessOk \/ C5_WitnessErr

InPacf == fn \in {"pacf", "pacf_rho"}

(* C6: the solves of pacf_rho and pacf run at the orders 1, 2, ... in      *)
(* turn; only the last one can have failed, and when it has, the call is   *)
(* over with Err and none of the values computed so far.                   *)
C6_PacfAbortsOnFirstFailure ==
    InPacf =>
        /\ \A k \in 1 .. Len(solves) : solves[k].n = k
        /\ \A k \in 1 .. Len(solves) - 1 : solves[k].info = 0
        /\ (solves # <<>> /\ solves[Len(solves)].info # 0) =>
              /\ pc = "done"
              /\ ret = Err
        /\ (pc = "done" /\ ret.kind = "Ok") =>
              \A k \in 1 .. Len(solves) : solves[k].info = 0

(* A failure at order 2 of 3 requested, after a value for lag 1.           *)
C6_Witness ==
    /\ Returned("pacf_rho")
    /\ pacf_m(rho, arg.opt) = 4
    /\ Len(solves) = 2
    /\ solves[2].info # 0
    /\ Len0(y) = 1
    /\ ret = Err

(* C7: a successful pacf_rho returns L = min(max_lag, len(rho)-1) entries, *)
(* entry i-1 being the last element of ar_coef_rho(rho, Some(i)).          *)
C7_PacfIsLastCoefficient ==
    (Returned("pacf_rho") /\ ret.kind = "Ok") =>
        /\ DOMAIN ret.val = 0 .. Clamped(arg.opt, ArgLen(arg.rho)) - 1
        /\ \A k \in 1 .. Len0(ret.val) :
              \A phi \in {ar_coef_rho(arg.rho, Some(U32(k))).res.val} :
                  Len0(phi) = k /\ ret.val[k - 1] = phi[k - 1]

C7_Witness ==
    /\ Returned("pacf_rho")
    /\ ret.kind = "Ok"
    /\ arg.opt = Some(U32(2))
    /\ Len0(ret.val) = 2
    /\ ret.val[1] = ar_coef_rho(arg.rho, Some(U32(2))).res.val[1]
    /\ ret.val[1] # ar_coef_rho(arg.rho, Some(U32(2))).res.val[0]

(* C8 as stated: pacf_rho(rho, Some(1)) returns the single value rho[1],   *)
(* for every rho.                                                          *)
C8_Original ==
    (Returned("pacf_rho") /\ arg.opt = Some(U32(1))) =>
        /\ ret.kind = "Ok"
        /\ Len0(ret.val) = 1
        /\ ret.val[0] = arg.rho[1]

(* C8 amended: for rho of length at least 2, pacf_rho(rho, Some(1))        *)
(* returns the single value rho[1], whatever rho[0] is, from the system    *)
(* [1.0] * phi = [rho[1]]; for rho of length 1 it returns an empty vector  *)
(* without calling the solver.                                             *)
C8_Amended ==
    (Returned("pacf_rho") /\ arg.opt = Some(U32(1))) =>
        IF ArgLen(arg.rho) >= 2
        THEN /\ ret = Ok(Vec(<<arg.rho[1]>>))
             /\ solves = <<[n |-> 1, info |-> 0]>>
             /\ sys = [n |-> 1, mr |-> Vec(<<One>>), b |-> Vec(<<arg.rho[1]>>)]
        ELSE /\ ret = Ok(<<>>)
             /\ solves = <<>>

C8_Witness ==
    /\ Returned("pacf_rho")
    /\ arg.opt = Some(U32(1))
    /\ ArgLen(arg.rho) = 3
    /\ arg.rho[0] = R(1, 2)
    /\ arg.rho[1] = R(-1, 2)
    /\ ret = Ok(Vec(<<R(-1, 2)>>))

(* cov0 * (1 - sum of phi[k] * rho[k+1]), summed from the last term.       *)
RECURSIVE DotFrom(_, _, _)
DotFrom(phi, r, k) ==
    IF k >= Len0(phi) THEN Zero
    ELSE FAdd(FMul(phi[k], r[k + 1]), DotFrom(phi, r, k + 1))

(* C9: var_phi_rho_cov fails its precondition check, before reading        *)
(* anything, when len(rho) <= len(phi); otherwise it returns               *)
(* Ok(cov0 * (1 - sum phi[i]*rho[i+1])) and reads rho at 1 .. len(phi).    *)
C9_VarPrecondition ==
    Returned("var_phi_rho_cov") =>
        IF ArgLen(arg.rho) <= ArgLen(arg.phi)
        THEN ret = Panic /\ reads = {}
        ELSE /\ ret = Ok(FMul(arg.cov0, FSub(One, DotFrom(arg.phi, arg.rho, 0))))
             /\ reads = 1 .. ArgLen(arg.phi)

C9_WitnessFail ==
    /\ Returned("var_phi_rho_cov")
    /\ ArgLen(arg.rho) = 2
    /\ ArgLen(arg.phi) = 2
    /\ ret = Panic

C9_WitnessOk ==
    /\ Returned("var_phi_rho_cov")
    /\ ArgLen(arg.rho) = 3
    /\ ArgLen(arg.phi) = 2
    /\ ret.kind = "Ok"
    /\ ret.val \notin {Zero, arg.cov0}
    /\ reads = {1, 2}

C9_Witness == C9_WitnessFail \/ C9_WitnessOk

(* C10 as stated: the n x n matrix handed to the solver has rho[|i-j|] in  *)
(* every cell off the diagonal and 1.0 on it, and b[i] = rho[i+1].         *)
C10_Original ==
    (Returned("ar_coef_rho") /\ solves # <<>>) =>
        /\ sys.n = Clamped(arg.opt, ArgLen(arg.rho))
        /\ \A r \in 0 .. sys.n - 1 : \A c \in 0 .. sys.n - 1 :
              sys.mr[r * sys.n + c] = IF r = c THEN One ELSE arg.rho[Abs(r - c)]
        /\ \A k \in 0 .. sys.n - 1 : sys.b[k] = arg.rho[k + 1]

(* C10 amended: the buffer handed to the solver has rho[j-i] in every cell *)
(* i*n+j with j > i, which is the triangle the solver reads, and 1.0 in    *)
(* every other cell, the diagonal included; b[i] = rho[i+1].  The matrix   *)
(* the solver reads from it is symmetric with rho[|i-j|] off the diagonal. *)
C10_Amended ==
    (Returned("ar_coef_rho") /\ solves # <<>>) =>
        /\ sys.n = Clamped(arg.opt, ArgLen(arg.rho))
        /\ DOMAIN sys.mr = 0 .. sys.n * sys.n - 1
        /\ DOMAIN sys.b = 0 .. sys.n - 1
        /\ \A r \in 0 .. sys.n - 1 : \A c \in 0 .. sys.n - 1 :
              /\ sys.mr[r * sys.n + c] = IF c > r THEN arg.rho[c - r] ELSE One
              /\ SysM(r, c) = IF r = c THEN One ELSE arg.rho[Abs(r - c)]
        /\ \A k \in 0 .. sys.n - 1 : sys.b[k] = arg.rho[k + 1]

C10_Witness ==
    /\ Returned("ar_coef_rho")
    /\ sys.n = 3
    /\ sys.mr[1] = R(1, 2)
    /\ sys.mr[2] = R(-1, 2)
    /\ sys.mr[3] = One
    /\ sys.b[2] = Zero

=============================================================================
